---- MODULE Spec2Model ----
(***************************************************************************)
(* State-machine model of simple_bot.py: the in-memory moderation store    *)
(* (admin_users, banned_users, all_users), the command handlers, and the   *)
(* per-user batch pipeline (handle_svg_document -> add_to_batch ->         *)
(* process_batch_after_delay).  Every coroutine is cut at its awaits: one  *)
(* action runs a handler from one await to the next, as the asyncio event  *)
(* loop does.                                                              *)
(***************************************************************************)
EXTENDS Integers, Sequences, FiniteSets, TLC

\* ------------------------------------------------------------------ bounds
MaxUser == 3
MaxHandlers == 2
MaxBatchLen == 2
MaxBroadcasts == 1
MaxScratch == 1

\* ------------------------------------------------------- program constants
owner_id == 1
max_file_size == 5 * 1024 * 1024
max_batch_size == 15

Users == 1..MaxUser

VARIABLES
    admin_users,      \* SimpleConfig.admin_users
    banned_users,     \* SimpleConfig.banned_users
    all_users,        \* SimpleConfig.all_users
    user_batches,     \* SimpleSVGToTGSBot.user_batches: user -> list object
    processing_tasks, \* SimpleSVGToTGSBot.processing_tasks: user -> task
    lists,            \* the list objects user_batches and the tasks refer to
    tasks,            \* the process_batch_after_delay coroutines
    uploads,          \* the handle_svg_document coroutines suspended at an await
    bcasts,           \* the broadcast_command coroutines suspended at an await
    scratch,          \* the tempfile.mkdtemp directories left on disk
    out               \* the transport calls the last step issued

vars == <<admin_users, banned_users, all_users, user_batches, processing_tasks,
          lists, tasks, uploads, bcasts, scratch, out>>

modVars == <<admin_users, banned_users, all_users>>
batchVars == <<user_batches, processing_tasks, lists, tasks, uploads, scratch>>

\* ----------------------------------------------------------------- helpers
Put(f, k, v) == [x \in (DOMAIN f) \cup {k} |-> IF x = k THEN v ELSE f[x]]

Drop(f, k) == [x \in (DOMAIN f) \ {k} |-> f[x]]

Min(a, b) == IF a < b THEN a ELSE b

EmptyMap == [x \in {} |-> 0]

\* A transport call: reply_text / send_message / send_document /
\* edit_message_text, the chat it goes to, its text and the numbers in it.
Call(c, to, text, data) == [call |-> c, to |-> to, text |-> text, data |-> data]

Reply(to, text) == Call("reply_text", to, text, <<>>)

\* context.args of a command that takes a user id.
IdArgs == {<<>>, <<"abc">>} \cup {<<ToString(u)>> : u \in Users}

\* int(context.args[0]): ValueError on a non-numeric string.
IsNumeric(s) == \E u \in Users : ToString(u) = s

int(s) == CHOOSE u \in Users : ToString(u) = s

\* ------------------------------------------------------------------- Init
Init ==
    /\ admin_users = IF owner_id # 0 THEN {owner_id} ELSE {}
    /\ banned_users = {}
    /\ all_users = {}
    /\ user_batches = EmptyMap
    /\ processing_tasks = EmptyMap
    /\ lists = EmptyMap
    /\ tasks = EmptyMap
    /\ uploads = EmptyMap
    /\ bcasts = EmptyMap
    /\ scratch = {}
    /\ out = <<>>

\* --------------------------------------------------------------- commands
\* Each command handler ends with one reply_text; out holds the call it
\* issues.  A reply that raises changes nothing in the bot's state.

\* start_command: no ban check; records the user and greets.
start_command(u) ==
    /\ all_users' = all_users \cup {u}
    /\ out' = <<Reply(u, "welcome")>>
    /\ UNCHANGED <<admin_users, banned_users, batchVars, bcasts>>

\* ban_command without its check of the owner.
BanResult_NoOwnerCheck(actor, args) ==
    IF actor \notin admin_users THEN banned_users
    ELSE IF args = <<>> THEN banned_users
    ELSE IF ~IsNumeric(args[1]) THEN banned_users
    ELSE IF int(args[1]) = actor THEN banned_users
    ELSE banned_users \cup {int(args[1])}

\* ban_command without its check of a self-ban.
BanResult_NoSelfCheck(actor, args) ==
    IF actor \notin admin_users THEN banned_users
    ELSE IF args = <<>> THEN banned_users
    ELSE IF ~IsNumeric(args[1]) THEN banned_users
    ELSE IF int(args[1]) = owner_id THEN banned_users
    ELSE banned_users \cup {int(args[1])}

\* banned_users as ban_command leaves it.
BanResult(actor, args) ==
    IF actor \notin admin_users THEN banned_users
    ELSE IF args = <<>> THEN banned_users
    ELSE IF ~IsNumeric(args[1]) THEN banned_users
    ELSE IF int(args[1]) = owner_id THEN banned_users
    ELSE IF int(args[1]) = actor THEN banned_users
    ELSE banned_users \cup {int(args[1])}

BanReply(actor, args) ==
    IF actor \notin admin_users THEN Reply(actor, "denied")
    ELSE IF args = <<>> THEN Reply(actor, "usage")
    ELSE IF ~IsNumeric(args[1]) THEN Reply(actor, "invalid_id")
    ELSE IF int(args[1]) = owner_id THEN Reply(actor, "cannot_ban_owner")
    ELSE IF int(args[1]) = actor THEN Reply(actor, "cannot_ban_self")
    ELSE Call("reply_text", actor, "banned_ok", <<int(args[1])>>)

ban_command(actor, args) ==
    /\ banned_users' = BanResult(actor, args)
    /\ out' = <<BanReply(actor, args)>>
    /\ UNCHANGED <<admin_users, all_users, batchVars, bcasts>>

\* unban_command without its permission check.
UnbanResult_NoPermissionCheck(actor, args) ==
    IF args = <<>> THEN banned_users
    ELSE IF ~IsNumeric(args[1]) THEN banned_users
    ELSE banned_users \ {int(args[1])}

\* banned_users as unban_command leaves it.
UnbanResult(actor, args) ==
    IF actor \notin admin_users THEN banned_users
    ELSE IF args = <<>> THEN banned_users
    ELSE IF ~IsNumeric(args[1]) THEN banned_users
    ELSE banned_users \ {int(args[1])}

UnbanReply(actor, args) ==
    IF actor \notin admin_users THEN Reply(actor, "denied")
    ELSE IF args = <<>> THEN Reply(actor, "usage")
    ELSE IF ~IsNumeric(args[1]) THEN Reply(actor, "invalid_id")
    ELSE Call("reply_text", actor, "unbanned_ok", <<int(args[1])>>)

unban_command(actor, args) ==
    /\ banned_users' = UnbanResult(actor, args)
    /\ out' = <<UnbanReply(actor, args)>>
    /\ UNCHANGED <<admin_users, all_users, batchVars, bcasts>>

\* The three numbers stats_command prints: total, banned, active.
StatsNumbers ==
    <<Cardinality(all_users),
      Cardinality(banned_users),
      Cardinality(all_users) - Cardinality(banned_users)>>

StatsReply(actor) ==
    IF actor \notin admin_users THEN Reply(actor, "denied")
    ELSE Call("reply_text", actor, "stats", StatsNumbers)

stats_command(actor) ==
    /\ out' = <<StatsReply(actor)>>
    /\ UNCHANGED <<modVars, batchVars, bcasts>>

\* make_admin_command open to every admin instead of the owner alone.
MakeAdminResult_AnyAdmin(actor, args) ==
    IF actor \notin admin_users THEN admin_users
    ELSE IF args = <<>> THEN admin_users
    ELSE IF ~IsNumeric(args[1]) THEN admin_users
    ELSE admin_users \cup {int(args[1])}

\* admin_users as make_admin_command leaves it.
MakeAdminResult(actor, args) ==
    IF actor # owner_id THEN admin_users
    ELSE IF args = <<>> THEN admin_users
    ELSE IF ~IsNumeric(args[1]) THEN admin_users
    ELSE admin_users \cup {int(args[1])}

MakeAdminReply(actor, args) ==
    IF actor # owner_id THEN Reply(actor, "owner_only")
    ELSE IF args = <<>> THEN Reply(actor, "usage")
    ELSE IF ~IsNumeric(args[1]) THEN Reply(actor, "invalid_id")
    ELSE Call("reply_text", actor, "admin_added", <<int(args[1])>>)

make_admin_command(actor, args) ==
    /\ admin_users' = MakeAdminResult(actor, args)
    /\ out' = <<MakeAdminReply(actor, args)>>
    /\ UNCHANGED <<banned_users, all_users, batchVars, bcasts>>

\* admin_users as remove_admin_command leaves it.
RemoveAdminResult(actor, args) ==
    IF actor # owner_id THEN admin_users
    ELSE IF args = <<>> THEN admin_users
    ELSE IF ~IsNumeric(args[1]) THEN admin_users
    ELSE IF int(args[1]) = owner_id THEN admin_users
    ELSE admin_users \ {int(args[1])}

RemoveAdminReply(actor, args) ==
    IF actor # owner_id THEN Reply(actor, "owner_only")
    ELSE IF args = <<>> THEN Reply(actor, "usage")
    ELSE IF ~IsNumeric(args[1]) THEN Reply(actor, "invalid_id")
    ELSE IF int(args[1]) = owner_id THEN Reply(actor, "cannot_remove_owner")
    ELSE Call("reply_text", actor, "admin_removed", <<int(args[1])>>)

remove_admin_command(actor, args) ==
    /\ admin_users' = RemoveAdminResult(actor, args)
    /\ out' = <<RemoveAdminReply(actor, args)>>
    /\ UNCHANGED <<banned_users, all_users, batchVars, bcasts>>

AdminHelpReply(actor) ==
    IF actor \notin admin_users THEN Reply(actor, "denied")
    ELSE IF actor = owner_id THEN Reply(actor, "admin_help_owner")
    ELSE Reply(actor, "admin_help")

admin_help_command(actor) ==
    /\ out' = <<AdminHelpReply(actor)>>
    /\ UNCHANGED <<modVars, batchVars, bcasts>>

\* handle_general_message: silent for a banned user; otherwise records the
\* user and answers by the kind of message.  kind: "document" (a file whose
\* name does not end in .svg), "photo", "text", "other".
GeneralKinds == {"document", "photo", "text", "other"}

GeneralReply(u, kind) ==
    CASE kind = "document" -> Reply(u, "only_svg_supported")
      [] kind = "photo" -> Reply(u, "photo_hint")
      [] kind = "text" -> Reply(u, "greeting")
      [] OTHER -> Reply(u, "not_sure")

handle_general_message(u, kind) ==
    /\ all_users' = IF u \in banned_users THEN all_users ELSE all_users \cup {u}
    /\ out' = IF u \in banned_users THEN <<>> ELSE <<GeneralReply(u, kind)>>
    /\ UNCHANGED <<admin_users, banned_users, batchVars, bcasts>>

\* ------------------------------------------------------------- broadcast
\* broadcast_command is cut at its awaits: the confirmation reply, each
\* send_message, each rate-limiting sleep, the summary edit.
BroadcastArgs == {<<>>, <<"hello">>}

FreeId(used, max) == CHOOSE i \in 1..max : i \notin used /\ \A j \in 1..(i - 1) : j \in used

\* user_ids = list(all_users - banned_users)
Recipients == all_users \ banned_users

\* Whether broadcast_command gets as far as its confirmation reply.
BroadcastStarts(actor, args) ==
    actor \in admin_users /\ args # <<>> /\ Recipients # {}

BroadcastReply(actor, args) ==
    IF actor \notin admin_users THEN Reply(actor, "denied")
    ELSE IF args = <<>> THEN Reply(actor, "usage")
    ELSE IF Recipients = {} THEN Reply(actor, "no_users")
    ELSE Call("reply_text", actor, "broadcast_starting", <<Cardinality(Recipients)>>)

\* The coroutine at its confirmation reply; todo holds the members of
\* user_ids the loop has not yet reached.
NewBroadcast(actor) ==
    [actor |-> actor, user_ids |-> Recipients, todo |-> Recipients,
     sent |-> 0, failed |-> 0, pc |-> "confirm"]

broadcast_command(actor, args) ==
    /\ BroadcastStarts(actor, args) => Cardinality(DOMAIN bcasts) < MaxBroadcasts
    /\ bcasts' = IF BroadcastStarts(actor, args)
                   THEN Put(bcasts, FreeId(DOMAIN bcasts, MaxBroadcasts), NewBroadcast(actor))
                   ELSE bcasts
    /\ out' = <<BroadcastReply(actor, args)>>
    /\ UNCHANGED <<modVars, batchVars>>

\* One turn of "for user_id in user_ids" (r is the recipient it takes; a list
\* made from a set has no order of its own): the next send, or the summary.
BcastIterate(bc, r) ==
    IF bc.todo = {}
        THEN [bc EXCEPT !.pc = "summary"]
        ELSE [bc EXCEPT !.pc = "send", !.todo = @ \ {r}]

BcastIterateOut(bc, r) ==
    IF bc.todo = {}
        THEN <<Call("edit_message_text", bc.actor, "broadcast_completed",
                    <<bc.sent, bc.failed, Cardinality(bc.user_ids)>>)>>
        ELSE <<Call("send_message", r, "broadcast", <<>>)>>

BcastNext(bc) == IF bc.todo = {} THEN {0} ELSE bc.todo

BcastAt(b, pc) == b \in DOMAIN bcasts /\ bcasts[b].pc = pc

\* The confirmation reply returns: the loop starts, or the exception ends the
\* handler.
broadcast_confirmed(b, ok, r) ==
    /\ BcastAt(b, "confirm")
    /\ r \in BcastNext(bcasts[b])
    /\ bcasts' = IF ok THEN [bcasts EXCEPT ![b] = BcastIterate(@, r)] ELSE Drop(bcasts, b)
    /\ out' = IF ok THEN BcastIterateOut(bcasts[b], r) ELSE <<>>
    /\ UNCHANGED <<modVars, batchVars>>

\* A send_message of the loop returns: counted as sent (then the 0.1 s sleep)
\* or as failed (then the next turn at once).
BcastFailed(bc) == [bc EXCEPT !.failed = @ + 1]

broadcast_sent(b, ok, r) ==
    /\ BcastAt(b, "send")
    /\ r \in BcastNext(bcasts[b])
    /\ bcasts' =
         IF ok
            THEN [bcasts EXCEPT ![b].sent = @ + 1, ![b].pc = "rate"]
            ELSE [bcasts EXCEPT ![b] = BcastIterate(BcastFailed(@), r)]
    /\ out' = IF ok THEN <<>> ELSE BcastIterateOut(BcastFailed(bcasts[b]), r)
    /\ UNCHANGED <<modVars, batchVars>>

\* asyncio.sleep(0.1) returns.
broadcast_paced(b, r) ==
    /\ BcastAt(b, "rate")
    /\ r \in BcastNext(bcasts[b])
    /\ bcasts' = [bcasts EXCEPT ![b] = BcastIterate(@, r)]
    /\ out' = BcastIterateOut(bcasts[b], r)
    /\ UNCHANGED <<modVars, batchVars>>

\* The summary edit returns and the handler ends.
broadcast_summarised(b) ==
    /\ BcastAt(b, "summary")
    /\ bcasts' = Drop(bcasts, b)
    /\ out' = <<>>
    /\ UNCHANGED <<modVars, batchVars>>

\* ------------------------------------------------------------- documents
\* An uploaded document: file name (stem and extension), size in bytes
\* (document.file_size, and len(file_data) once downloaded) and the kind of
\* its content.
Doc(stem, ext, size, content) ==
    [stem |-> stem, ext |-> ext, size |-> size, content |-> content]

DocA == Doc("a", "svg", 1024, "svg")

DocB == Doc("b", "SVG", max_file_size, "malformed")

DocBig == Doc("big", "svg", max_file_size + 1, "svg")

Docs == {DocA, DocB, DocBig}

\* Every kind of input validate_file can be given: name, length and content.
AllDocs ==
    {Doc("a", e, n, c) : e \in {"svg", "SVG", "txt"},
                         n \in {1024, max_file_size, max_file_size + 1},
                         c \in {"svg", "prefixed", "xml", "malformed", "text"}}

\* str.lower() on an extension.
lower(ext) ==
    CASE ext = "SVG" -> "svg"
      [] ext = "Svg" -> "svg"
      [] ext = "TXT" -> "txt"
      [] OTHER -> ext

\* file_name.lower().endswith('.svg')
EndsWithSvg(d) == lower(d.ext) = "svg"

\* validate_file_size without its limit.
validate_file_size_NoLimit(d) == d.size >= 0

\* SVGValidator.validate_file_size
validate_file_size(d) == d.size <= max_file_size

\* The kinds of content:
\*   "svg"       <svg xmlns="http://www.w3.org/2000/svg"/>
\*   "prefixed"  <s:svg xmlns:s="http://www.w3.org/2000/svg"/> without an XML
\*               declaration: well-formed, root svg, no "<svg" in the text
\*   "xml"       <?xml version="1.0"?><html/>
\*   "malformed" <svg><g></svg>
\*   "text"      hello
\* '<svg' in content.lower() or '<?xml' in content.lower()
HasMarker(c) == c \in {"svg", "xml", "malformed"}

\* ET.fromstring(file_data) returns (no ParseError).
Parses(c) == c \in {"svg", "prefixed", "xml"}

\* root.tag.lower().endswith('svg')
RootEndsWithSvg(c) == c \in {"svg", "prefixed"}

\* SVGValidator.validate_svg_format: the content must carry an svg or xml
\* marker, parse as XML, and have a root tag that ends in "svg".
validate_svg_format(d) ==
    IF ~HasMarker(d.content) THEN [ok |-> FALSE, msg |-> "invalid_svg_format"]
    ELSE IF ~Parses(d.content) THEN [ok |-> FALSE, msg |-> "svg_parsing_error"]
    ELSE IF RootEndsWithSvg(d.content) THEN [ok |-> TRUE, msg |-> "valid_svg_format"]
    ELSE [ok |-> FALSE, msg |-> "not_a_valid_svg"]

\* SVGValidator.validate_file: extension, then size, then format.
validate_file(d) ==
    IF ~EndsWithSvg(d) THEN [ok |-> FALSE, msg |-> "only_svg_accepted"]
    ELSE IF ~validate_file_size(d) THEN [ok |-> FALSE, msg |-> "file_too_large"]
    ELSE IF ~validate_svg_format(d).ok THEN validate_svg_format(d)
    ELSE [ok |-> TRUE, msg |-> "valid_svg_file"]

\* ---------------------------------------------------- upload -> add_to_batch
\* The list objects in use: those user_batches or a running task refers to.
Live(ub, tk, ls) ==
    [l \in {l \in DOMAIN ls : (\E u \in DOMAIN ub : ub[u] = l)
                              \/ (\E t \in DOMAIN tk : tk[t].batch = l)} |-> ls[l]]

\* The files a user has on the way into a batch: in the user's list and in
\* the user's suspended upload handlers.
Pending(u) ==
    (IF u \in DOMAIN user_batches THEN Len(lists[user_batches[u]].files) ELSE 0)
    + Cardinality({h \in DOMAIN uploads : uploads[h].user = u})

\* The fast path without its size check.
SvgRejection_NoSizeCheck(u, d) ==
    IF u \in banned_users THEN "banned_notice"
    ELSE IF ~EndsWithSvg(d) THEN "only_svg_accepted"
    ELSE "none"

\* handle_svg_document up to its first await (get_file): the ban gate, the
\* known-user record, the extension and size checks.
SvgRejection(u, d) ==
    IF u \in banned_users THEN "banned_notice"
    ELSE IF ~EndsWithSvg(d) THEN "only_svg_accepted"
    ELSE IF d.size > max_file_size THEN "file_too_large"
    ELSE "none"

\* room: how many files of the user the exploration follows.
SvgUpload(u, d, room) ==
    LET rejection == SvgRejection(u, d)
    IN  /\ rejection = "none" =>
              /\ Cardinality(DOMAIN uploads) < MaxHandlers
              /\ Pending(u) < room
        /\ all_users' = IF u \in banned_users THEN all_users ELSE all_users \cup {u}
        /\ uploads' =
             IF rejection = "none"
                THEN Put(uploads, FreeId(DOMAIN uploads, MaxHandlers),
                         [user |-> u, doc |-> d, pc |-> "download"])
                ELSE uploads
        /\ out' =
             IF rejection = "none" THEN <<>>
             ELSE <<Call("reply_text", u, rejection, <<>>)>>
        /\ UNCHANGED <<admin_users, banned_users, user_batches, processing_tasks,
                       lists, tasks, bcasts, scratch>>

handle_svg_document(u, d) == SvgUpload(u, d, MaxBatchLen)

\* The except clauses of handle_svg_document: a reply, then error_handler.
UploadFailure(u, text) == <<Reply(u, text)>>

\* The list add_to_batch stores for a user without a batch, with the record
\* of the calls made for it: arrivals is the order of the add_to_batch calls
\* that found or made this list, statuses counts its initial status messages.
NewList(d) == [files |-> <<>>, arrivals |-> <<d>>, statuses |-> 1]

\* get_file / download_as_bytearray return and add_to_batch is entered: a
\* user without a batch gets an empty list and the status message is sent
\* (the handler is suspended there); a user with a batch gets the file
\* appended.
download_done(h, ok) ==
    /\ h \in DOMAIN uploads
    /\ uploads[h].pc = "download"
    /\ LET u == uploads[h].user
           d == uploads[h].doc
           l == FreeId(DOMAIN lists, 2 * MaxUser + 1)
       IN  /\ IF ~ok
                THEN /\ uploads' = Drop(uploads, h)
                     /\ out' = UploadFailure(u, "download_failed")
                     /\ UNCHANGED <<user_batches, lists>>
              ELSE IF u \notin DOMAIN user_batches
                THEN /\ user_batches' = Put(user_batches, u, l)
                     /\ lists' = Put(lists, l, NewList(d))
                     /\ uploads' = [uploads EXCEPT ![h].pc = "status"]
                     /\ out' = <<Call("send_message", u, "please_wait", <<>>)>>
              ELSE /\ lists' = [lists EXCEPT
                                  ![user_batches[u]].files = Append(@, d),
                                  ![user_batches[u]].arrivals = Append(@, d)]
                   /\ uploads' = Drop(uploads, h)
                   /\ out' = <<>>
                   /\ UNCHANGED user_batches
    /\ UNCHANGED <<modVars, processing_tasks, tasks, bcasts, scratch>>

\* A task as asyncio.create_task leaves it: at the debounce sleep.
NewTask(u) ==
    [user |-> u, pc |-> "sleep", batch |-> 0, i |-> 0, successful |-> 0, failed |-> 0]

MaxTasks == 2 * MaxUser

\* The status send_message of add_to_batch returns: the task is created and
\* registered, then the file is appended; or the exception leaves
\* add_to_batch and is answered by handle_svg_document.
status_sent(h, ok) ==
    /\ h \in DOMAIN uploads
    /\ uploads[h].pc = "status"
    /\ LET u == uploads[h].user
           d == uploads[h].doc
           t == FreeId(DOMAIN tasks, MaxTasks)
       IN  /\ IF ~ok
                THEN /\ out' = UploadFailure(u, "download_failed")
                     /\ UNCHANGED <<processing_tasks, tasks, lists>>
                ELSE /\ tasks' = Put(tasks, t, NewTask(u))
                     /\ processing_tasks' = Put(processing_tasks, u, t)
                     /\ IF u \in DOMAIN user_batches
                          THEN /\ lists' = [lists EXCEPT
                                              ![user_batches[u]].files = Append(@, d)]
                               /\ out' = <<>>
                          ELSE /\ out' = UploadFailure(u, "upload_error")
                               /\ UNCHANGED lists
           /\ uploads' = Drop(uploads, h)
    /\ UNCHANGED <<modVars, user_batches, bcasts, scratch>>


\* ------------------------------------------------------------ conversion
\* What the external converter leaves behind: whether setting up the scratch
\* directory raised, the exit code, whether the output file exists, its size,
\* and whether shutil.rmtree of the scratch directory returned.
ConvOutcomes ==
    [raises : BOOLEAN, rc : {0, 1}, exists : BOOLEAN,
     size : {0, 1024, 64 * 1024 + 1}, rmtree : BOOLEAN]

\* _run_lottie_convert with the 64 KB warning turned into a failure.
run_lottie_convert_SizeLimit(o) ==
    IF o.rc # 0 THEN FALSE
    ELSE IF ~o.exists \/ o.size = 0 THEN FALSE
    ELSE o.size <= 64 * 1024

\* SVGToTGSConverter._run_lottie_convert
run_lottie_convert(o) ==
    IF o.rc # 0 THEN FALSE
    ELSE IF ~o.exists \/ o.size = 0 THEN FALSE
    ELSE TRUE

\* SVGToTGSConverter.convert_svg_to_tgs: the length of the bytes returned, 0
\* for None.
convert_svg_to_tgs(o) ==
    IF o.raises THEN 0
    ELSE IF run_lottie_convert(o) /\ o.exists THEN o.size
    ELSE 0

\* The finally clause of convert_svg_to_tgs: the directory mkdtemp made is
\* removed, unless rmtree raises (logged and swallowed) and leaves it.
Leaks(o) == ~o.raises /\ ~o.rmtree

\* ------------------------------------------- process_batch_after_delay
\* The finally clause without its second deletion.
Cleanup_LeavesTaskEntry(t) ==
    /\ user_batches' = Drop(user_batches, tasks[t].user)
    /\ processing_tasks' = processing_tasks
    /\ tasks' = Drop(tasks, t)
    /\ lists' = Live(user_batches', tasks', lists)

\* The finally clause emptying both dicts.
Cleanup_Everyone(t) ==
    /\ user_batches' = EmptyMap
    /\ processing_tasks' = EmptyMap
    /\ tasks' = Drop(tasks, t)
    /\ lists' = Live(user_batches', tasks', lists)

\* The finally clause: the user's entries are deleted and the coroutine ends.
Cleanup(t) ==
    /\ user_batches' = Drop(user_batches, tasks[t].user)
    /\ processing_tasks' = Drop(processing_tasks, tasks[t].user)
    /\ tasks' = Drop(tasks, t)
    /\ lists' = Live(user_batches', tasks', lists)

\* The text of the final status edit.
FinalStatus(tk) ==
    IF tk.successful > 0
        THEN IF tk.failed > 0
            THEN Call("edit_message_text", tk.user, "done_counts",
                      <<tk.successful, tk.failed>>)
            ELSE Call("edit_message_text", tk.user, "done", <<>>)
        ELSE Call("edit_message_text", tk.user, "no_files_converted", <<>>)

\* One turn of "for file_info in batch" on the live list: past the end the
\* final status is edited; an invalid file is reported; a valid one goes to
\* the converter.
\* The loop head stepping over a file.
Iterate_SkipsOne(tk, i) ==
    IF i + 1 > Len(lists[tk.batch].files) THEN [tk EXCEPT !.i = i + 1, !.pc = "edit_final"]
    ELSE IF ~validate_file(lists[tk.batch].files[i + 1]).ok
        THEN [tk EXCEPT !.i = i + 1, !.pc = "notify_invalid"]
    ELSE [tk EXCEPT !.i = i + 1, !.pc = "convert"]

Iterate(tk, i) ==
    IF i > Len(lists[tk.batch].files) THEN [tk EXCEPT !.i = i, !.pc = "edit_final"]
    ELSE IF ~validate_file(lists[tk.batch].files[i]).ok
        THEN [tk EXCEPT !.i = i, !.pc = "notify_invalid"]
    ELSE [tk EXCEPT !.i = i, !.pc = "convert"]

IterateOut(tk, i) ==
    IF i > Len(lists[tk.batch].files) THEN <<FinalStatus(tk)>>
    ELSE IF ~validate_file(lists[tk.batch].files[i]).ok
        THEN <<Call("send_message", tk.user,
                    validate_file(lists[tk.batch].files[i]).msg, <<i>>)>>
    ELSE <<>>

\* The inner except clause, counting the file before its message is sent.
FileError_Counts(tk) == [tk EXCEPT !.pc = "notify_error", !.failed = @ + 1]

\* The inner except clause: the per-file error message is sent.
FileError(tk) == [tk EXCEPT !.pc = "notify_error"]

FileErrorOut(tk) == <<Call("send_message", tk.user, "processing_error", <<tk.i>>)>>

\* The outer except clause: the status is edited to the batch failure text.
BatchError(tk) == [tk EXCEPT !.pc = "edit_failed"]

\* The outer except clause without its report.
BatchErrorOut_Silent(tk) == <<>>

BatchErrorOut(tk) == <<Call("edit_message_text", tk.user, "batch_failed", <<>>)>>

TaskAt(t, pc) == t \in DOMAIN tasks /\ tasks[t].pc = pc

\* asyncio.sleep(processing_delay) returns: the batch is read; an empty one
\* ends the run, otherwise the status is edited to "Converting n files".
timer_fired(t) ==
    /\ TaskAt(t, "sleep")
    /\ LET u == tasks[t].user
           empty == u \notin DOMAIN user_batches
                    \/ lists[user_batches[u]].files = <<>>
       IN  IF empty
             THEN /\ Cleanup(t)
                  /\ out' = <<>>
             ELSE /\ tasks' = [tasks EXCEPT ![t].batch = user_batches[u],
                                            ![t].pc = "edit_converting"]
                  /\ out' = <<Call("edit_message_text", u, "converting",
                                   <<Len(lists[user_batches[u]].files)>>)>>
                  /\ UNCHANGED <<user_batches, processing_tasks, lists>>
    /\ UNCHANGED <<modVars, uploads, bcasts, scratch>>

\* A step of the run that keeps the coroutine alive.
TaskStep(t, tk, calls) ==
    /\ tasks' = [tasks EXCEPT ![t] = tk]
    /\ out' = calls
    /\ UNCHANGED <<modVars, user_batches, processing_tasks, lists, uploads, bcasts, scratch>>

\* The "Converting" edit returns.
converting_edited(t, ok) ==
    /\ TaskAt(t, "edit_converting")
    /\ IF ok
         THEN TaskStep(t, Iterate(tasks[t], 1), IterateOut(tasks[t], 1))
         ELSE TaskStep(t, BatchError(tasks[t]), BatchErrorOut(tasks[t]))

\* The validation-failure message returns.
invalid_notified(t, ok) ==
    /\ TaskAt(t, "notify_invalid")
    /\ LET tk == [tasks[t] EXCEPT !.failed = @ + 1]
       IN  IF ok
             THEN TaskStep(t, Iterate(tk, tk.i + 1), IterateOut(tk, tk.i + 1))
             ELSE TaskStep(t, FileError(tasks[t]), FileErrorOut(tasks[t]))

\* convert_svg_to_tgs returns: the document is sent, or "Conversion failed".
\* The call is taken as a whole (mkdtemp, write, subprocess, read, rmtree):
\* only the call itself touches its scratch directory.
converted(t, o) ==
    /\ TaskAt(t, "convert")
    /\ Leaks(o) => Cardinality(scratch) < MaxScratch
    /\ scratch' = IF Leaks(o) THEN scratch \cup {FreeId(scratch, MaxScratch)}
                              ELSE scratch
    /\ tasks' = [tasks EXCEPT ![t].pc = IF convert_svg_to_tgs(o) > 0
                                          THEN "send_doc" ELSE "notify_failed"]
    /\ out' = IF convert_svg_to_tgs(o) > 0
                THEN <<Call("send_document", tasks[t].user, "converted",
                            <<tasks[t].i>>)>>
                ELSE <<Call("send_message", tasks[t].user, "conversion_failed",
                            <<tasks[t].i>>)>>
    /\ UNCHANGED <<modVars, user_batches, processing_tasks, lists, uploads, bcasts>>

\* send_document returns.
document_sent(t, ok) ==
    /\ TaskAt(t, "send_doc")
    /\ IF ok
         THEN TaskStep(t,
                       [tasks[t] EXCEPT !.successful = @ + 1, !.pc = "pace"], <<>>)
         ELSE TaskStep(t, FileError(tasks[t]), FileErrorOut(tasks[t]))

\* The "Conversion failed" message returns.
failure_notified(t, ok) ==
    /\ TaskAt(t, "notify_failed")
    /\ IF ok
         THEN TaskStep(t,
                       [tasks[t] EXCEPT !.failed = @ + 1, !.pc = "pace"], <<>>)
         ELSE TaskStep(t, FileError(tasks[t]), FileErrorOut(tasks[t]))

\* asyncio.sleep(0.5) returns.
paced(t) ==
    /\ TaskAt(t, "pace")
    /\ TaskStep(t, Iterate(tasks[t], tasks[t].i + 1),
                IterateOut(tasks[t], tasks[t].i + 1))

\* The per-file error message of the inner except clause returns.
error_notified(t, ok) ==
    /\ TaskAt(t, "notify_error")
    /\ LET tk == [tasks[t] EXCEPT !.failed = @ + 1]
       IN  IF ok
             THEN TaskStep(t, Iterate(tk, tk.i + 1), IterateOut(tk, tk.i + 1))
             ELSE TaskStep(t, BatchError(tasks[t]), BatchErrorOut(tasks[t]))

\* The final status edit returns.
final_edited(t, ok) ==
    /\ TaskAt(t, "edit_final")
    /\ IF ok
         THEN /\ Cleanup(t)
              /\ out' = <<>>
              /\ UNCHANGED <<modVars, uploads, bcasts, scratch>>
         ELSE TaskStep(t, BatchError(tasks[t]), BatchErrorOut(tasks[t]))

\* The "Batch processing failed" edit returns (its own failure is swallowed).
failed_edited(t) ==
    /\ TaskAt(t, "edit_failed")
    /\ Cleanup(t)
    /\ out' = <<>>
    /\ UNCHANGED <<modVars, uploads, bcasts, scratch>>

\* -------------------------------------------------------- specifications
Commands ==
    \/ \E u \in Users : start_command(u)
    \/ \E u \in Users, a \in IdArgs : ban_command(u, a)
    \/ \E u \in Users, a \in IdArgs : unban_command(u, a)
    \/ \E u \in Users : stats_command(u)
    \/ \E u \in Users, a \in IdArgs : make_admin_command(u, a)
    \/ \E u \in Users, a \in IdArgs : remove_admin_command(u, a)
    \/ \E u \in Users : admin_help_command(u)
    \/ \E u \in Users, k \in GeneralKinds : handle_general_message(u, k)

Broadcasts ==
    \/ \E u \in Users, a \in BroadcastArgs : broadcast_command(u, a)
    \/ \E b \in 1..MaxBroadcasts, ok \in BOOLEAN, r \in Users \cup {0} :
          broadcast_confirmed(b, ok, r)
    \/ \E b \in 1..MaxBroadcasts, ok \in BOOLEAN, r \in Users \cup {0} :
          broadcast_sent(b, ok, r)
    \/ \E b \in 1..MaxBroadcasts, r \in Users \cup {0} : broadcast_paced(b, r)
    \/ \E b \in 1..MaxBroadcasts : broadcast_summarised(b)

\* setup_handlers routes a document to handle_svg_document when its name
\* ends in .svg (any case), to handle_general_message otherwise.
SvgDocs == {d \in Docs : EndsWithSvg(d)}

Uploads ==
    \/ \E u \in Users, d \in SvgDocs : handle_svg_document(u, d)
    \/ \E h \in 1..MaxHandlers, ok \in BOOLEAN : download_done(h, ok)
    \/ \E h \in 1..MaxHandlers, ok \in BOOLEAN : status_sent(h, ok)

Batches ==
    \/ \E t \in 1..MaxTasks : timer_fired(t)
    \/ \E t \in 1..MaxTasks, ok \in BOOLEAN : converting_edited(t, ok)
    \/ \E t \in 1..MaxTasks, ok \in BOOLEAN : invalid_notified(t, ok)
    \/ \E t \in 1..MaxTasks, o \in ConvOutcomes : converted(t, o)
    \/ \E t \in 1..MaxTasks, ok \in BOOLEAN : document_sent(t, ok)
    \/ \E t \in 1..MaxTasks, ok \in BOOLEAN : failure_notified(t, ok)
    \/ \E t \in 1..MaxTasks : paced(t)
    \/ \E t \in 1..MaxTasks, ok \in BOOLEAN : error_notified(t, ok)
    \/ \E t \in 1..MaxTasks, ok \in BOOLEAN : final_edited(t, ok)
    \/ \E t \in 1..MaxTasks : failed_edited(t)

\* The whole bot.
Next == Commands \/ Broadcasts \/ Uploads \/ Batches

Spec == Init /\ [][Next]_vars

\* The updates the bot answers at once: every command, every general
\* message, and the uploads and broadcasts that end at their first reply.  A
\* handler that goes on past an await is left to SpecBatch and SpecBroadcast.
NextMod ==
    \/ Commands
    \/ \E u \in Users, a \in BroadcastArgs :
          ~BroadcastStarts(u, a) /\ broadcast_command(u, a)
    \/ \E u \in Users, d \in SvgDocs :
          SvgRejection(u, d) # "none" /\ handle_svg_document(u, d)

SpecMod == Init /\ [][NextMod]_vars

\* Broadcasts, with the commands that decide their recipients.
NextBroadcast ==
    \/ \E u \in Users : start_command(u)
    \/ \E u \in Users, a \in IdArgs : ban_command(u, a)
    \/ \E u \in Users, a \in IdArgs : unban_command(u, a)
    \/ Broadcasts

SpecBroadcast == Init /\ [][NextBroadcast]_vars

\* The batch pipeline of one user: the uploads and the batch runs.
BatchUser == owner_id + 1

NextBatch ==
    \/ \E d \in SvgDocs : handle_svg_document(BatchUser, d)
    \/ \E h \in 1..MaxHandlers, ok \in BOOLEAN : download_done(h, ok)
    \/ \E h \in 1..MaxHandlers, ok \in BOOLEAN : status_sent(h, ok)
    \/ Batches

SpecBatch == Init /\ [][NextBatch]_vars

\* process_batch_after_delay on a batch of one file of any kind: the user's
\* timer is running and the file is in the batch.
InitRun ==
    /\ admin_users = IF owner_id # 0 THEN {owner_id} ELSE {}
    /\ banned_users = {}
    /\ all_users = {BatchUser}
    /\ \E d \in AllDocs : lists = Put(EmptyMap, 1, [NewList(d) EXCEPT !.files = <<d>>])
    /\ user_batches = Put(EmptyMap, BatchUser, 1)
    /\ tasks = Put(EmptyMap, 1, NewTask(BatchUser))
    /\ processing_tasks = Put(EmptyMap, BatchUser, 1)
    /\ uploads = EmptyMap
    /\ bcasts = EmptyMap
    /\ scratch = {}
    /\ out = <<>>

SpecRun == InitRun /\ [][Batches]_vars

\* The uploads of one user while the debounce timer is still running, as
\* many as max_batch_size and one more.
NextFill ==
    \/ \E d \in {DocA, DocBig} : SvgUpload(BatchUser, d, max_batch_size + 1)
    \/ \E h \in 1..MaxHandlers, ok \in BOOLEAN : download_done(h, ok)
    \/ \E h \in 1..MaxHandlers, ok \in BOOLEAN : status_sent(h, ok)

SpecFill == Init /\ [][NextFill]_vars

\* The uploads and the batch run of one user in runs where every transport
\* call returns normally.
NextCalm ==
    \/ \E d \in SvgDocs : handle_svg_document(BatchUser, d)
    \/ \E h \in 1..MaxHandlers : download_done(h, TRUE)
    \/ \E h \in 1..MaxHandlers : status_sent(h, TRUE)
    \/ \E t \in 1..MaxTasks : timer_fired(t)
    \/ \E t \in 1..MaxTasks : converting_edited(t, TRUE)
    \/ \E t \in 1..MaxTasks : invalid_notified(t, TRUE)
    \/ \E t \in 1..MaxTasks, o \in ConvOutcomes : converted(t, o)
    \/ \E t \in 1..MaxTasks : document_sent(t, TRUE)
    \/ \E t \in 1..MaxTasks : failure_notified(t, TRUE)
    \/ \E t \in 1..MaxTasks : paced(t)
    \/ \E t \in 1..MaxTasks : final_edited(t, TRUE)

SpecCalm == Init /\ [][NextCalm]_vars

\* Two users, each uploading one file at a time, and their batch runs.
OtherUser == BatchUser + 1

PairUsers == {BatchUser, OtherUser}

NextPair ==
    \/ \E u \in PairUsers, d \in {DocA, DocB} : SvgUpload(u, d, 1)
    \/ \E h \in 1..MaxHandlers, ok \in BOOLEAN : download_done(h, ok)
    \/ \E h \in 1..MaxHandlers, ok \in BOOLEAN : status_sent(h, ok)
    \/ Batches

SpecPair == Init /\ [][NextPair]_vars


\* ================================================================ claims
IsReply(text) == Len(out) = 1 /\ out[1].call = "reply_text" /\ out[1].text = text

\* ---------------------------------------------------------------- C5
\* C5: ban(actor, target) leaves banned_users unchanged when the actor is no
\* admin, when the target is the owner, or when the target is the actor; in
\* every other case the target is in banned_users after the command.
C5_BanEffect ==
    [][\A actor \in Users, target \in Users :
          ban_command(actor, <<ToString(target)>>) =>
             IF actor \notin admin_users \/ target = owner_id \/ target = actor
                THEN banned_users' = banned_users
                ELSE target \in banned_users']_vars

\* A ban went through: a user other than the owner and the actor was banned.
C5_Witness ==
    /\ IsReply("banned_ok")
    /\ out[1].data[1] \in banned_users
    /\ out[1].data[1] \notin {owner_id, out[1].to}

\* ---------------------------------------------------------------- C6
\* C6: makeadmin and removeadmin change admin_users only when the actor is
\* the owner; removeadmin of the owner by the owner changes nothing; no
\* command of another actor changes admin_users.
C6_OwnerOnlyAdmins ==
    [][/\ \A actor \in Users \ {owner_id}, args \in IdArgs :
             (make_admin_command(actor, args) \/ remove_admin_command(actor, args))
                => admin_users' = admin_users
       /\ remove_admin_command(owner_id, <<ToString(owner_id)>>)
             => admin_users' = admin_users
       /\ admin_users' # admin_users =>
             \E args \in IdArgs : \/ make_admin_command(owner_id, args)
                                  \/ remove_admin_command(owner_id, args)]_vars

\* A non-owner admin has just been denied /makeadmin.
C6_Witness ==
    /\ IsReply("owner_only")
    /\ out[1].to \in admin_users \ {owner_id}

\* ---------------------------------------------------------------- C7
\* C7: in every reachable state the owner is in admin_users and not in
\* banned_users.
C7_OwnerInvariant == owner_id \in admin_users /\ owner_id \notin banned_users

\* An admin other than the owner has just tried to ban the owner.
C7_Witness ==
    /\ IsReply("cannot_ban_owner")
    /\ out[1].to # owner_id
    /\ banned_users # {}

\* ---------------------------------------------------------------- C9
\* C9: an admin command (broadcast, ban, unban, stats, adminhelp) from a
\* caller who is not in admin_users, and an owner command (makeadmin,
\* removeadmin) from a caller who is not the owner, is answered by a denial
\* reply and leaves admin_users, banned_users and all_users unchanged.
Denial(actor) == <<Reply(actor, "denied")>>

OwnerDenial(actor) == <<Reply(actor, "owner_only")>>

C9_UnauthorizedDenied ==
    [][/\ \A actor \in Users \ admin_users :
             (\/ \E a \in BroadcastArgs : broadcast_command(actor, a)
              \/ \E a \in IdArgs : ban_command(actor, a)
              \/ \E a \in IdArgs : unban_command(actor, a)
              \/ stats_command(actor)
              \/ admin_help_command(actor))
                => out' = Denial(actor) /\ UNCHANGED modVars
       /\ \A actor \in Users \ {owner_id} :
             (\/ \E a \in IdArgs : make_admin_command(actor, a)
              \/ \E a \in IdArgs : remove_admin_command(actor, a))
                => out' = OwnerDenial(actor) /\ UNCHANGED modVars]_vars

\* A caller who is no admin has just been denied while somebody is banned
\* and somebody is known (state there was to change).
C9_Witness ==
    /\ IsReply("denied")
    /\ out[1].to \notin admin_users
    /\ banned_users # {}
    /\ all_users # {}


\* ---------------------------------------------------------------- C4
\* C4: while a user is banned, every upload and every command of that user
\* (start, broadcast, ban, unban, stats, makeadmin, removeadmin, adminhelp)
\* issues no transport call at all.
UpdateFrom(u) ==
    \/ start_command(u)
    \/ \E a \in BroadcastArgs : broadcast_command(u, a)
    \/ \E a \in IdArgs : ban_command(u, a)
    \/ \E a \in IdArgs : unban_command(u, a)
    \/ stats_command(u)
    \/ \E a \in IdArgs : make_admin_command(u, a)
    \/ \E a \in IdArgs : remove_admin_command(u, a)
    \/ admin_help_command(u)
    \/ \E d \in SvgDocs : handle_svg_document(u, d)

C4_BannedSilent == [][\A u \in banned_users : UpdateFrom(u) => out' = <<>>]_vars


\* --------------------------------------------------------------- C10
\* C10: the active-user count that stats reports to an admin is the number of
\* users that are known and not banned.
C10_ActiveCount ==
    IsReply("stats") => out[1].data[3] = Cardinality(all_users \ banned_users)

\* ---------------------------------------------------------------- C8
\* C8: a broadcast that an admin starts with a message attempts one send to
\* each member of all_users minus banned_users (as they were when the command
\* came) and to nobody else, whatever sends fail, and its summary's sent plus
\* failed is the size of that set.  Stated of the step that ends the handler:
\* every recipient has been reached and counted.
C8_BroadcastReachesAll ==
    [][\A b \in DOMAIN bcasts :
          b \notin DOMAIN bcasts' =>
             /\ bcasts[b].todo = {}
             /\ bcasts[b].sent + bcasts[b].failed = Cardinality(bcasts[b].user_ids)]_vars

\* ---------------------------------------------------------------- C1
\* C1: when a user's debounce timer fires, the batch holds the files of all
\* the add_to_batch calls made for it so far, in the order of those calls,
\* and one initial status message was sent for it.
Fires(t) ==
    /\ t \in DOMAIN tasks
    /\ tasks[t].pc = "sleep"
    /\ t \in DOMAIN tasks'
    /\ tasks'[t].pc = "edit_converting"

C1_ArrivalOrder ==
    [][\A t \in DOMAIN tasks :
          Fires(t) =>
             /\ lists'[tasks'[t].batch].files = lists'[tasks'[t].batch].arrivals
             /\ lists'[tasks'[t].batch].statuses = 1]_vars

\* ---------------------------------------------------------------- C2
\* C2: every batch add_to_batch creates gets its run of
\* process_batch_after_delay, exactly one: once the call that created a
\* user's batch is over, a task of that user is waiting or running, and never
\* two; and when a run ends the user has no entry in user_batches and none in
\* processing_tasks.
Creating(u) == \E h \in DOMAIN uploads : uploads[h].user = u /\ uploads[h].pc = "status"

TasksOf(u) == {t \in DOMAIN tasks : tasks[t].user = u}

OneRunPerBatch ==
    \A u \in DOMAIN user_batches : Creating(u) \/ Cardinality(TasksOf(u)) = 1

C2_OneRunThenIdle ==
    [][/\ OneRunPerBatch'
       /\ \A t \in DOMAIN tasks :
             t \notin DOMAIN tasks' =>
                /\ tasks[t].user \notin DOMAIN user_batches'
                /\ tasks[t].user \notin DOMAIN processing_tasks']_vars

\* ---------------------------------------------------------------- C3
\* C3: a file that reaches add_to_batch after the user's timer has fired is
\* never appended to the batch in flight: the list a running task has taken
\* does not grow.
C3_InFlightBatchFixed ==
    [][\A t \in DOMAIN tasks :
          (tasks[t].batch # 0 /\ tasks[t].batch \in DOMAIN lists') =>
             lists'[tasks[t].batch].files = lists[tasks[t].batch].files]_vars

\* --------------------------------------------------------------- C11
\* The run turns to a file of its batch: the loop variable moves on to it.
Begins(t) ==
    /\ t \in DOMAIN tasks
    /\ t \in DOMAIN tasks'
    /\ tasks'[t].i = tasks[t].i + 1
    /\ tasks'[t].i <= Len(lists'[tasks'[t].batch].files)

\* The file a task is at.
FileOf(tk, ls) == ls[tk.batch].files[tk.i]

InLoop(tk, ls) == tk.batch # 0 /\ tk.i >= 1 /\ tk.i <= Len(ls[tk.batch].files)

NoticeIn(o, text) ==
    Len(o) = 1 /\ o[1].call = "send_message" /\ o[1].text = text

IsNotice(text) == NoticeIn(out, text)

\* C11 as stated: for any input longer than the size limit, validate_file
\* fails with the too-large reason (whatever the file's name).
C11_OversizeTooLarge ==
    [][\A t \in DOMAIN tasks :
          (Begins(t) /\ FileOf(tasks'[t], lists').size > max_file_size) =>
             /\ tasks'[t].pc = "notify_invalid"
             /\ NoticeIn(out', "file_too_large")]_vars

\* C11 amended: for any input longer than the size limit validate_file
\* fails, with the too-large reason when the file name ends in .svg (the
\* extension is checked first), and the run never gives such a file to the
\* converter.
C11_OversizeRejected ==
    [][/\ \A t \in DOMAIN tasks :
             (Begins(t) /\ FileOf(tasks'[t], lists').size > max_file_size) =>
                /\ tasks'[t].pc = "notify_invalid"
                /\ NoticeIn(out', IF EndsWithSvg(FileOf(tasks'[t], lists'))
                                     THEN "file_too_large" ELSE "only_svg_accepted")
       /\ \A t \in DOMAIN tasks' :
             (InLoop(tasks'[t], lists')
                /\ FileOf(tasks'[t], lists').size > max_file_size) =>
                   tasks'[t].pc \notin {"convert", "send_doc", "notify_failed"}]_vars

\* An oversize .svg file has just been refused by the run.
C11_Witness ==
    /\ IsNotice("file_too_large")
    /\ \E t \in DOMAIN tasks :
          /\ tasks[t].pc = "notify_invalid"
          /\ FileOf(tasks[t], lists).size > max_file_size

\* --------------------------------------------------------------- C12
\* A well-formed document whose root element is svg.
ExpectedDocument(c) == c \in {"svg", "prefixed"}

\* The reason of the first check that fails, in the order extension, size,
\* document structure.
FirstFailure(d) ==
    IF ~EndsWithSvg(d) THEN "only_svg_accepted"
    ELSE IF d.size > max_file_size THEN "file_too_large"
    ELSE IF ~ExpectedDocument(d.content) THEN validate_svg_format(d).msg
    ELSE "none"

\* C12: validate_file succeeds for every input whose name ends in .svg (any
\* case), whose length is at most the limit and whose content is a
\* well-formed document with an svg root; the checks run in the order
\* extension, size, document structure and stop at the first failure.
C12_ValidAccepted ==
    [][\A t \in DOMAIN tasks :
          Begins(t) =>
             IF FirstFailure(FileOf(tasks'[t], lists')) = "none"
                THEN tasks'[t].pc = "convert"
                ELSE /\ tasks'[t].pc = "notify_invalid"
                     /\ NoticeIn(out', FirstFailure(FileOf(tasks'[t], lists')))]_vars

\* --------------------------------------------------------------- C13
\* The fast-path checks of an upload: the extension and the declared size.
FastPathRejects(d) == ~EndsWithSvg(d) \/ d.size > max_file_size

\* C13: an upload that the fast path of handle_svg_document rejects (wrong
\* extension, or declared size above the limit) is answered at once by the
\* rejection reply and creates no batch record and no timer: user_batches
\* and processing_tasks are unchanged, and the handler is over.
C13_FastPathRejection ==
    [][\A u \in Users \ banned_users, d \in SvgDocs :
          (FastPathRejects(d) /\ handle_svg_document(u, d)) =>
             /\ out' = <<Reply(u, IF ~EndsWithSvg(d) THEN "only_svg_accepted"
                                                     ELSE "file_too_large")>>
             /\ UNCHANGED <<user_batches, processing_tasks, lists, tasks, uploads>>]_vars

\* A too-large upload was just rejected while the user's batch is collecting.
C13_Witness ==
    /\ IsReply("file_too_large")
    /\ out[1].to \in DOMAIN user_batches
    /\ \E t \in DOMAIN tasks : tasks[t].user = out[1].to /\ tasks[t].pc = "sleep"

\* --------------------------------------------------------------- C14
\* The loop of a run is over: the run turns to the final status edit.
LoopEnds(t) ==
    /\ t \in DOMAIN tasks
    /\ t \in DOMAIN tasks'
    /\ tasks[t].pc # "edit_final"
    /\ tasks'[t].pc = "edit_final"

\* C14: when the loop is over the status message is edited to the final
\* summary: with succeeded > 0 it shows the succeeded and failed counts
\* (also when failed is 0), with succeeded = 0 the all-failed text.
C14_FinalSummary ==
    [][\A t \in DOMAIN tasks :
          LoopEnds(t) =>
             out' = <<IF tasks'[t].successful > 0
                        THEN Call("edit_message_text", tasks'[t].user, "done_counts",
                                  <<tasks'[t].successful, tasks'[t].failed>>)
                        ELSE Call("edit_message_text", tasks'[t].user,
                                  "no_files_converted", <<>>)>>]_vars

\* --------------------------------------------------------------- C15
\* An exception reaches the outer except clause of the run: the transport
\* call that failed is one outside the per-file try block, or the per-file
\* error message itself.
Escapes(t) ==
    \/ converting_edited(t, FALSE)
    \/ error_notified(t, FALSE)
    \/ final_edited(t, FALSE)

\* C15: an exception that reaches the batch boundary is caught there: the
\* status message is edited to the batch-failure text, the coroutine goes on
\* to its end instead of raising, and when it ends the user's entries in
\* user_batches and processing_tasks are removed.
C15_BatchBoundary ==
    [][\A t \in DOMAIN tasks :
          /\ Escapes(t) =>
                /\ out' = <<Call("edit_message_text", tasks[t].user, "batch_failed", <<>>)>>
                /\ t \in DOMAIN tasks'
                /\ tasks'[t].pc = "edit_failed"
          /\ tasks[t].pc = "edit_failed" =>
                \/ UNCHANGED tasks
                \/ /\ t \notin DOMAIN tasks'
                   /\ tasks[t].user \notin DOMAIN user_batches'
                   /\ tasks[t].user \notin DOMAIN processing_tasks']_vars

\* A run has just reported a batch failure, with files of its batch still
\* unprocessed.
C15_Witness ==
    /\ Len(out) = 1
    /\ out[1].text = "batch_failed"
    /\ \E t \in DOMAIN tasks :
          /\ tasks[t].pc = "edit_failed"
          /\ tasks[t].user \in DOMAIN user_batches
          /\ tasks[t].user \in DOMAIN processing_tasks

\* --------------------------------------------------------------- C16
\* C16: no scratch directory outlives the convert_svg_to_tgs call that made
\* it: between the calls no directory is on disk.
C16_ScratchRemoved == scratch = {}

\* --------------------------------------------------------------- C17
\* C17: a conversion whose external process ran is a success exactly when the
\* exit code is 0 and the output file exists with a size above zero; an
\* output above 64 KiB is a success all the same.
C17_ConversionSuccess ==
    [][\A t \in DOMAIN tasks, o \in ConvOutcomes :
          (converted(t, o) /\ ~o.raises) =>
             (tasks'[t].pc = "send_doc" <=> (o.rc = 0 /\ o.exists /\ o.size > 0))]_vars

\* A conversion has just succeeded: its document is being sent.
C17_Witness ==
    /\ Len(out) = 1
    /\ out[1].call = "send_document"
    /\ \E t \in DOMAIN tasks : tasks[t].pc = "send_doc"

\* --------------------------------------------------------------- C18
\* C18: a batch never holds more than max_batch_size files.
C18_BatchSizeBound ==
    \A l \in DOMAIN lists : Len(lists[l].files) <= max_batch_size

\* --------------------------------------------------------------- C19
\* C19: a failing transport call never takes a run out of its per-file
\* loop: the run turns to the batch-failure report only from the final
\* status edit, when every file of the batch has had its turn.
C19_LoopSurvivesTransport ==
    [][\A t \in DOMAIN tasks :
          (t \in DOMAIN tasks' /\ tasks'[t].pc = "edit_failed"
             /\ tasks[t].pc # "edit_failed") =>
                tasks[t].pc = "edit_final"]_vars

\* --------------------------------------------------------------- C20
\* The files a run has counted: all before the one it is at, and that one
\* too once its outcome is in.
Counted(tk) ==
    CASE tk.pc \in {"sleep", "edit_converting"} -> 0
      [] tk.pc = "pace" -> tk.i
      [] OTHER -> tk.i - 1

\* C20: a validation failure and a conversion failure send the per-file
\* notification, add one to failed and let the run go on with the next file;
\* every file adds one to exactly one of successful and failed, so while no
\* exception has escaped the loop successful + failed is the number of
\* files processed, and at the end of the loop the number of files.
C20_OneCountPerFile ==
    [][\A t \in DOMAIN tasks' :
          /\ tasks'[t].pc # "edit_failed" =>
                tasks'[t].successful + tasks'[t].failed = Counted(tasks'[t])
          /\ LoopEnds(t) =>
                tasks'[t].successful + tasks'[t].failed
                   = Len(lists'[tasks'[t].batch].files)
          /\ (Begins(t) /\ ~validate_file(FileOf(tasks'[t], lists')).ok) =>
                /\ tasks'[t].pc = "notify_invalid"
                /\ NoticeIn(out', validate_file(FileOf(tasks'[t], lists')).msg)
          /\ (t \in DOMAIN tasks /\ tasks[t].pc = "convert"
                /\ tasks'[t].pc = "notify_failed") =>
                   NoticeIn(out', "conversion_failed")
          /\ (t \in DOMAIN tasks /\ tasks[t].pc \in {"notify_invalid", "notify_failed"}
                /\ tasks'[t] # tasks[t] /\ tasks'[t].pc # "notify_error") =>
                   /\ tasks'[t].failed = tasks[t].failed + 1
                   /\ tasks'[t].successful = tasks[t].successful
                   /\ tasks'[t].pc \in {"pace", "notify_invalid", "convert", "edit_final"}]_vars

\* A run has finished the loop over a batch with one converted file and one
\* failed file.
C20_Witness ==
    \E t \in DOMAIN tasks :
       /\ tasks[t].pc = "edit_final"
       /\ tasks[t].successful > 0
       /\ tasks[t].failed > 0

\* --------------------------------------------------------------- C21
\* C21: one timer task is scheduled per batch, by the add_to_batch call that
\* creates it: when that call is over the user has exactly one task; a call
\* for a user who already has a batch appends its file and leaves the tasks
\* alone and sends no status message.
C21_OneTimerPerBatch ==
    [][\A h \in DOMAIN uploads :
          /\ (uploads[h].user \in DOMAIN user_batches /\ download_done(h, TRUE)) =>
                /\ UNCHANGED <<tasks, processing_tasks, user_batches>>
                /\ out' = <<>>
          /\ (\E ok \in BOOLEAN : status_sent(h, ok)) =>
                Cardinality({t \in DOMAIN tasks' : tasks'[t].user = uploads[h].user}) = 1]_vars

\* --------------------------------------------------------------- C23
\* C23: a command or an upload of a user who is banned changes nothing:
\* admin_users, banned_users, all_users, user_batches and processing_tasks
\* stay as they are.
C23_BannedChangesNothing ==
    [][\A u \in banned_users :
          UpdateFrom(u) => UNCHANGED <<modVars, user_batches, processing_tasks>>]_vars

\* --------------------------------------------------------------- C27
\* C27: no batch record is leaked: a user with an entry in user_batches has
\* a timer or processing task, or the add_to_batch call that made the entry
\* is still on its way to scheduling one.
C27_RecordHasTimer ==
    \A u \in DOMAIN user_batches : Creating(u) \/ TasksOf(u) # {}

\* --------------------------------------------------------------- C24
\* C24: every user has at most one batch record and at most one processing
\* task; a task belongs to a user with a record and works on that record, no
\* add_to_batch call is creating a record while a task of the user exists,
\* and a user with an entry in processing_tasks has an entry in user_batches.
C24_OneBatchPerUser ==
    \A u \in Users :
        /\ Cardinality(TasksOf(u)) <= 1
        /\ TasksOf(u) # {} => u \in DOMAIN user_batches /\ ~Creating(u)
        /\ \A t \in TasksOf(u) : tasks[t].batch # 0 => tasks[t].batch = user_batches[u]
        /\ u \in DOMAIN processing_tasks =>
              /\ u \in DOMAIN user_batches
              /\ processing_tasks[u] \in TasksOf(u)
        /\ Cardinality({h \in DOMAIN uploads : uploads[h].user = u /\ uploads[h].pc = "status"}) <= 1

\* A run of the user's batch is under way while another upload of the same
\* user is being downloaded.
C24_Witness ==
    \E t \in DOMAIN tasks : \E h \in DOMAIN uploads :
        /\ tasks[t].pc = "convert"
        /\ uploads[h].user = tasks[t].user
        /\ uploads[h].pc = "download"
        /\ processing_tasks[tasks[t].user] = t

\* --------------------------------------------------------------- C22
\* The per-file outcome notifications: the converted document, or one of
\* the failure messages (validation, conversion, processing error).
OutcomeTexts ==
    {"converted", "conversion_failed", "processing_error"}
        \cup {validate_file(d).msg : d \in {e \in AllDocs : ~validate_file(e).ok}}

OutcomeCalls(o) == {k \in 1..Len(o) : o[k].text \in OutcomeTexts}

\* C22: the files of a batch are handled one at a time in the order of the
\* list they were appended to: the position of a run moves by one file at a
\* time, only once the outcome of the file it was at has been emitted, and
\* every outcome that is emitted is that of the file the run is at.
C22_OneAtATimeInOrder ==
    [][\A t \in DOMAIN tasks \cap DOMAIN tasks' :
          /\ tasks'[t].i # tasks[t].i =>
                /\ tasks'[t].i = tasks[t].i + 1
                /\ tasks[t].pc \in (IF tasks[t].i = 0 THEN {"edit_converting"}
                                    ELSE {"notify_invalid", "pace", "notify_error"})
          /\ (tasks'[t].pc = "pace" /\ tasks[t].pc # "pace") =>
                tasks[t].pc \in {"send_doc", "notify_failed"}
          /\ (tasks'[t] # tasks[t]
                 /\ tasks'[t].pc \in {"send_doc", "notify_failed", "notify_invalid", "notify_error"}) =>
                /\ InLoop(tasks'[t], lists')
                /\ OutcomeCalls(out') = {1}
                /\ out'[1].data = <<tasks'[t].i>>
                /\ out'[1].text \in {"converted", "conversion_failed"} =>
                      validate_file(FileOf(tasks'[t], lists')).ok
                /\ tasks'[t].pc = "notify_invalid" =>
                      /\ ~validate_file(FileOf(tasks'[t], lists')).ok
                      /\ out'[1].text = validate_file(FileOf(tasks'[t], lists')).msg
          /\ (tasks'[t] # tasks[t] /\ OutcomeCalls(out') # {}) =>
                tasks'[t].pc \in {"send_doc", "notify_failed", "notify_invalid", "notify_error"}]_vars

\* The outcome of the second file of a batch is emitted, the first file
\* having been counted.
C22_Witness ==
    \E t \in DOMAIN tasks :
        /\ tasks[t].i = 2
        /\ tasks[t].successful + tasks[t].failed = 1
        /\ OutcomeCalls(out) = {1}
        /\ out[1].data = <<2>>

\* --------------------------------------------------------------- C26
\* C26: no accepted file is lost: when the record of a batch is removed at
\* the end of its run, every file that was appended to the batch has had its
\* outcome (it was counted as converted or as failed).
C26_NoFileLost ==
    [][\A t \in DOMAIN tasks :
          (t \notin DOMAIN tasks' /\ tasks[t].batch # 0) =>
              tasks[t].successful + tasks[t].failed = Len(lists[tasks[t].batch].files)]_vars

\* --------------------------------------------------------------- C25
\* The users whose handler or task takes the step.
Actors ==
    {uploads[h].user : h \in {g \in DOMAIN uploads :
                                 g \notin DOMAIN uploads' \/ uploads'[g] # uploads[g]}}
        \cup {uploads'[h].user : h \in DOMAIN uploads' \ DOMAIN uploads}
        \cup {tasks[t].user : t \in {s \in DOMAIN tasks :
                                       s \notin DOMAIN tasks' \/ tasks'[s] # tasks[s]}}

\* A user's batch record with its files, and the user's timer task.
BatchOf(u, ub, ls) == IF u \in DOMAIN ub THEN <<ub[u], ls[ub[u]]>> ELSE <<>>

TimerOf(u, pt, tk) ==
    <<IF u \in DOMAIN pt THEN <<pt[u]>> ELSE <<>>,
      {<<t, tk[t]>> : t \in {s \in DOMAIN tk : tk[s].user = u}}>>

\* A step of the task: whichever call it awaits returns, with any result.
TaskMoves(t) ==
    \/ timer_fired(t)
    \/ paced(t)
    \/ failed_edited(t)
    \/ \E o \in ConvOutcomes : converted(t, o)
    \/ \E ok \in BOOLEAN :
          \/ converting_edited(t, ok)
          \/ invalid_notified(t, ok)
          \/ document_sent(t, ok)
          \/ failure_notified(t, ok)
          \/ error_notified(t, ok)
          \/ final_edited(t, ok)

\* C25: the batches of different users are independent: a step of one
\* user's handler or task (add_to_batch, the timer firing, a processing step,
\* the teardown) leaves every other user's batch record and timer task as
\* they are, and a task can take its next step whatever the other user's
\* batch is waiting for.
C25_Independent ==
    [][/\ \A b \in Users :
             b \notin Actors =>
                 /\ BatchOf(b, user_batches', lists') = BatchOf(b, user_batches, lists)
                 /\ TimerOf(b, processing_tasks', tasks') = TimerOf(b, processing_tasks, tasks)
       /\ Cardinality(Actors) <= 1
       /\ \A t \in DOMAIN tasks : ENABLED TaskMoves(t)]_vars

\* One user's run has reached its final summary while the other user's
\* timer is still pending.
C25_Witness ==
    \E ta \in DOMAIN tasks, tb \in DOMAIN tasks :
        /\ tasks[ta].user # tasks[tb].user
        /\ tasks[ta].pc = "sleep"
        /\ tasks[tb].pc = "edit_final"
        /\ tasks[ta].user \in DOMAIN user_batches

====
